---- MODULE Spec2Model ----
(***************************************************************************)
(* Appointment scheduler of Clinica-Backend: the Cita collection and the   *)
(* handlers that write it (controllers/citas.js, controllers/pagos.js,     *)
(* controllers/historias.js).                                              *)
(***************************************************************************)
EXTENDS Integers, Sequences, FiniteSets, TLC

\* ---------------------------------------------------------------- bounds
MaxCitas == 2              \* appointments stored (SpecAgenda, SpecSistema, SpecReservas)
MaxCitasEstados == 1       \* appointments stored (Spec)
MaxCitasReprogramar == 2   \* appointments stored (SpecReprogramar)
MaxTime == 2               \* instants 0..MaxTime
MaxPagos == 1              \* payments stored
MaxCitasNotificaciones == 2  \* appointments stored (SpecNotificaciones)
MaxRecordatorios == 2      \* entries of an appointment's recordatoriosEnviados
MaxCitasCancelaciones == 1 \* appointments stored (SpecCancelaciones)
MaxCitasListado == 2       \* appointments stored (SpecListado)
MaxCitasSucesoras == 3     \* appointments stored (SpecSucesoras)
MaxCitasMarco == 2         \* appointments stored (SpecMarco)

\* ------------------------------------------------------------ value sets
NULL == "null"
SinFecha == 0 - 1
Tiempos == 0..MaxTime
Medicos == {"m1", "m2"}
PacientesBase == {"p1"}
Tratamientos == {"t1"}
NotasEntrada == {NULL, "n1"}
MotivosEntrada == {NULL, "mot"}

Estados ==
  {"programada", "confirmada", "en_curso", "completada", "cancelada",
   "reprogramada", "no_asistio"}

EstadosEntrada == Estados \cup {"desconocido"}

Usuarios ==
  { [rol |-> "administrador", userId |-> "a1"],
    [rol |-> "secretaria", userId |-> "s1"],
    [rol |-> "medico", userId |-> "m1"],
    [rol |-> "medico", userId |-> "m2"],
    [rol |-> "paciente", userId |-> "up1"],
    [rol |-> "paciente", userId |-> "ux"] }

\* Paciente.findOne({ usuario: userId }): the patient profile of a user
PacienteDeUsuario(userId) == IF userId = "up1" THEN "p1" ELSE NULL

\* Directories consulted by the handlers (Paciente, User, Tratamiento)
PacientesExistentes == {"p1", "p2"}

\* the reminder channels a patient has enabled and has contact data for:
\* preferencias.recordatoriosEmail && usuario.email, recordatoriosSMS && usuario.telefono
Canales(paciente) == IF paciente = "p2" THEN {"email", "sms"} ELSE {}

\* what becomes of a dispatch: every send succeeds, emailService throws,
\* smsService throws
Envios == {"enviado", "fallaEmail", "fallaSMS"}
MedicosActivos == {"m1", "m2"}
TratamientosActivos == {"t1", "t2"}
profesionalesHabilitados(t) == IF t = "t2" THEN {"m1"} ELSE {}

\* ----------------------------------------------------------------- state
VARIABLES
  citas,      \* the Cita collection: sequence of documents, _id = index
  pagos,      \* the Pago collection: sequence of [cita, estado, monto]
  historias,  \* ids of the appointments that have a HistoriaClinica
  res,        \* the last response sent: [op, status]
  pc,         \* per worker: position inside a handler (concurrent runs)
  local,      \* per worker: the request and the documents it holds
  listado     \* the last listing answered: [solicitud, citas, totalCitas]

vars == <<citas, pagos, historias, res, pc, local, listado>>

Ids == DOMAIN citas

\* the setter of a schema path declared { type: String, trim: true }:
\* String.prototype.trim; " " stands for the strings made of whitespace only
Trim(texto) == IF texto = " " THEN "" ELSE texto

\* new Cita({...}) with the schema defaults
NuevaCita(paciente, medico, tratamiento, inicio, fin, notas, original) ==
  [ paciente |-> paciente, medico |-> medico, tratamiento |-> tratamiento,
    fechaInicio |-> inicio, fechaFin |-> fin, estado |-> "programada",
    notas |-> Trim(notas), citaOriginal |-> original,
    recordatoriosEnviados |-> << >>,
    canceladoPor |-> "no_aplica", motivoCancelacion |-> NULL ]

Responder(op, status) == [op |-> op, status |-> status]

\* the $or of the overlap query, for one stored appointment
Solapa(c, inicio, fin) ==
  \/ c.fechaInicio >= inicio /\ c.fechaInicio < fin
  \/ c.fechaFin > inicio /\ c.fechaFin <= fin
  \/ c.fechaInicio <= inicio /\ c.fechaFin >= fin

\* Cita.findOne({_id: {$ne}, medico, estado: {$nin: [...]}, $or: [...]}) != null
CitaSolapada(store, excluida, medico, inicio, fin) ==
  \E i \in DOMAIN store :
    /\ i # excluida
    /\ store[i].medico = medico
    /\ store[i].estado \notin {"cancelada", "reprogramada"}
    /\ Solapa(store[i], inicio, fin)

\* req.user.rol === 'paciente' ? 'paciente' : 'medico'
OrigenPorRol(user) == IF user.rol = "paciente" THEN "paciente" ELSE "medico"

\* motivo || porDefecto
ODefecto(texto, porDefecto) == IF texto = NULL \/ texto = "" THEN porDefecto ELSE texto

Workers == {"w1", "w2"}
Reposo == [op |-> "ninguna"]
SinListado == [solicitud |-> << >>, citas |-> << >>, totalCitas |-> 0]

Init ==
  /\ citas = << >>
  /\ pagos = << >>
  /\ historias = {}
  /\ res = Responder("ninguna", 0)
  /\ pc = [w \in Workers |-> "reposo"]
  /\ local = [w \in Workers |-> Reposo]
  /\ listado = SinListado

\* what a handler of the citas controller leaves alone
SoloCitas == UNCHANGED <<pagos, historias, pc, local, listado>>

Falla(op, status) == res' = Responder(op, status) /\ UNCHANGED citas

\* what a run of a handler leaves: the collection and the status it answers
Resultado(store, status) == [citas |-> store, status |-> status]

\* mutant: the log is overwritten with the new entry
Registrar_Reemplaza(cita, tipo) ==
  [cita EXCEPT !.recordatoriosEnviados = <<[tipo |-> tipo, estado |-> "enviado"]>>]

\* recordatoriosEnviados.push({ tipo, fecha, estado: 'enviado' })
Registrar(cita, tipo) ==
  [cita EXCEPT !.recordatoriosEnviados = Append(@, [tipo |-> tipo, estado |-> "enviado"])]

\* the notification block of a handler: for each channel it serves and the
\* patient has enabled, send and then record; a send that throws ends the block
Notificar(cita, canales, envio) ==
  LET activos == canales \cap Canales(cita.paciente)
  IN IF "email" \in activos /\ envio = "fallaEmail" THEN cita
     ELSE LET c1 == IF "email" \in activos THEN Registrar(cita, "email") ELSE cita
          IN IF "sms" \in activos /\ envio # "fallaSMS"
               THEN Registrar(c1, "sms") ELSE c1

\* mutant: the error of a send is not caught and reaches the handler's catch
TrasNotificar_SinCatch(status, envio) == IF envio # "enviado" THEN 500 ELSE status

\* catch (notificacionError) { console.error(...) }: the handler goes on
TrasNotificar(status, envio) == status

\* mutant: an empty list of enabled practitioners enables nobody
NoHabilitado_ListaVacia(medico, tratamiento) ==
  medico \notin profesionalesHabilitados(tratamiento)

\* the practitioner is not enabled for the treatment: the list is not empty
\* and does not include the practitioner
NoHabilitado(medico, tratamiento) ==
  /\ profesionalesHabilitados(tratamiento) # {}
  /\ medico \notin profesionalesHabilitados(tratamiento)

\* crearCita: one run of the handler on the collection
crearCita(store, paciente, medico, tratamiento, inicio, fin, notas, envio) ==
  IF paciente \notin PacientesExistentes THEN Resultado(store, 404)
  ELSE IF medico \notin MedicosActivos THEN Resultado(store, 404)
  ELSE IF tratamiento \notin TratamientosActivos THEN Resultado(store, 404)
  ELSE IF NoHabilitado(medico, tratamiento) THEN Resultado(store, 400)
  ELSE IF CitaSolapada(store, 0, medico, inicio, fin)
    THEN Resultado(store, 400)
  ELSE Resultado(
         Append(store,
           Notificar(NuevaCita(paciente, medico, tratamiento, inicio, fin, notas, 0),
                     {"email", "sms"}, envio)),
         TrasNotificar(201, envio))

\* POST /api/citas
CrearCita(paciente, medico, tratamiento, inicio, fin, notas, envio) ==
  /\ SoloCitas
  /\ LET r == crearCita(citas, paciente, medico, tratamiento, inicio, fin, notas, envio)
     IN citas' = r.citas /\ res' = Responder("crearCita", r.status)

\* actualizarCita refuses these states
NoActualizable(estado) == estado \in {"cancelada", "completada", "no_asistio"}

\* actualizarCita: one run of the handler on the collection
actualizarCita(store, id, fechaInicio, fechaFin, notas, envio) ==
  IF id \notin DOMAIN store THEN Resultado(store, 404)
  ELSE IF NoActualizable(store[id].estado) THEN Resultado(store, 400)
  ELSE
    LET cita == store[id]
        cambia == \/ fechaInicio # SinFecha /\ fechaInicio # cita.fechaInicio
                  \/ fechaFin # SinFecha /\ fechaFin # cita.fechaFin
        nuevoInicio == IF fechaInicio # SinFecha THEN fechaInicio ELSE cita.fechaInicio
        nuevoFin == IF fechaFin # SinFecha THEN fechaFin ELSE cita.fechaFin
        c1 == IF cambia
                THEN [cita EXCEPT !.fechaInicio = nuevoInicio, !.fechaFin = nuevoFin]
                ELSE cita
        c2 == IF notas # NULL THEN [c1 EXCEPT !.notas = Trim(notas)] ELSE c1
        \* if (fechaInicio || fechaFin): notify, whether or not a bound changed
        c3 == IF fechaInicio # SinFecha \/ fechaFin # SinFecha
                THEN Notificar(c2, {"email"}, envio) ELSE c2
    IN IF cambia /\ CitaSolapada(store, id, cita.medico, nuevoInicio, nuevoFin)
         THEN Resultado(store, 400)
         ELSE Resultado([store EXCEPT ![id] = c3], TrasNotificar(200, envio))

\* PUT /api/citas/:id
ActualizarCita(id, fechaInicio, fechaFin, notas, envio) ==
  /\ SoloCitas
  /\ LET r == actualizarCita(citas, id, fechaInicio, fechaFin, notas, envio)
     IN citas' = r.citas /\ res' = Responder("actualizarCita", r.status)

estadosValidos == Estados

estadosFinales == {"completada", "cancelada", "no_asistio"}

\* mutant: no_asistio left out of the final states
TransicionRechazada_SinNoAsistio(actual, estado) ==
  actual \in {"completada", "cancelada"} /\ actual # estado

\* mutant: en_curso taken for a final state
TransicionRechazada_EnCursoFinal(actual, estado) ==
  actual \in estadosFinales \cup {"en_curso"} /\ actual # estado

\* the guard of cambiarEstadoCita: a final state may not change to another state
TransicionRechazada(actual, estado) == actual \in estadosFinales /\ actual # estado

\* mutant: the document saved loses its citaOriginal reference
CitaConEstado_SinOriginal(cita, estado, notas, user) ==
  [cita EXCEPT !.estado = estado, !.citaOriginal = 0]

\* the document cambiarEstadoCita saves
CitaConEstado(cita, estado, notas, user) ==
  LET c1 == [cita EXCEPT !.estado = estado]
      c2 == IF notas # NULL THEN [c1 EXCEPT !.notas = Trim(notas)] ELSE c1
  IN IF estado = "cancelada"
       THEN [c2 EXCEPT !.canceladoPor = OrigenPorRol(user),
                       !.motivoCancelacion =
                          Trim(ODefecto(notas, "No se especificó motivo"))]
     ELSE IF estado = "no_asistio"
       THEN [c2 EXCEPT !.canceladoPor = "no_aplica",
                       !.motivoCancelacion = "Paciente no asistió"]
     ELSE c2

\* cambiarEstadoCita: one run of the handler on the collection
cambiarEstadoCita(store, id, estado, notas, user) ==
  IF estado \notin estadosValidos THEN Resultado(store, 400)
  ELSE IF id \notin DOMAIN store THEN Resultado(store, 404)
  ELSE IF TransicionRechazada(store[id].estado, estado) THEN Resultado(store, 400)
  ELSE Resultado([store EXCEPT ![id] = CitaConEstado(store[id], estado, notas, user)], 200)

\* PUT /api/citas/:id/estado
CambiarEstadoCita(id, estado, notas, user) ==
  /\ SoloCitas
  /\ LET r == cambiarEstadoCita(citas, id, estado, notas, user)
     IN citas' = r.citas /\ res' = Responder("cambiarEstadoCita", r.status)

\* ---- transactions: writes made with { session } are staged until commit
GuardarEnSesion(sesion, id, doc) == Append(sesion, [id |-> id, doc |-> doc])

AplicarEscritura(store, w) ==
  IF w.id \in DOMAIN store THEN [store EXCEPT ![w.id] = w.doc] ELSE Append(store, w.doc)

RECURSIVE CommitTransaction(_, _)
CommitTransaction(store, sesion) ==
  IF sesion = << >> THEN store
  ELSE CommitTransaction(AplicarEscritura(store, Head(sesion)), Tail(sesion))

\* mutant: the writes were made outside the session, the abort keeps them
AbortTransaction_SinSesion(store, sesion) == CommitTransaction(store, sesion)

\* session.abortTransaction(): none of the staged writes reaches the collection
AbortTransaction(store, sesion) == store

\* the points of a transaction at which the storage layer may throw
Fallas == {"ninguna", "primerGuardado", "segundoGuardado", "commit"}

\* the writes staged when the failure strikes
SesionHasta(sesion, falla) ==
  IF falla = "primerGuardado" THEN << >>
  ELSE IF falla = "segundoGuardado" THEN SubSeq(sesion, 1, 1)
  ELSE sesion

\* the original as reprogramarCita retires it
CitaRetirada(cita, motivo, user) ==
  [cita EXCEPT !.estado = "reprogramada",
               !.motivoCancelacion = Trim(ODefecto(motivo, "Cita reprogramada")),
               !.canceladoPor = OrigenPorRol(user)]

\* mutant: the successor does not carry the notes of the original
CitaSucesora_SinNotas(cita, id, inicio, fin) ==
  NuevaCita(cita.paciente, cita.medico, cita.tratamiento, inicio, fin, NULL, id)

\* mutant: the successor is created without its citaOriginal reference
CitaSucesora_SinOriginal(cita, id, inicio, fin) ==
  NuevaCita(cita.paciente, cita.medico, cita.tratamiento, inicio, fin, cita.notas, 0)

\* the successor reprogramarCita creates
CitaSucesora(cita, id, inicio, fin) ==
  NuevaCita(cita.paciente, cita.medico, cita.tratamiento, inicio, fin, cita.notas, id)

\* mutant: reprogramada left out of the states reprogramarCita refuses
NoReprogramable_SinReprogramada(estado) ==
  estado \in {"cancelada", "completada", "no_asistio"}

\* reprogramarCita refuses these states
NoReprogramable(estado) ==
  estado \in {"cancelada", "completada", "no_asistio", "reprogramada"}

\* reprogramarCita: one run of the handler on the collection
reprogramarCita(store, id, fechaInicio, fechaFin, motivo, user, falla, envio) ==
  IF id \notin DOMAIN store THEN Resultado(store, 404)
  ELSE IF NoReprogramable(store[id].estado) THEN Resultado(store, 400)
  ELSE IF CitaSolapada(store, id, store[id].medico, fechaInicio, fechaFin)
    THEN Resultado(store, 400)
  ELSE
    LET nuevaCita == CitaSucesora(store[id], id, fechaInicio, fechaFin)
        notificada == Notificar(nuevaCita, {"email"}, envio)
        s1 == GuardarEnSesion(<< >>, id, CitaRetirada(store[id], motivo, user))
        s2 == GuardarEnSesion(s1, Len(store) + 1, nuevaCita)
        \* the successor is saved again once its reminder is recorded
        s3 == IF notificada # nuevaCita
                THEN GuardarEnSesion(s2, Len(store) + 1, notificada) ELSE s2
    IN IF falla = "ninguna"
         THEN Resultado(CommitTransaction(store, s3), TrasNotificar(200, envio))
         ELSE Resultado(AbortTransaction(store, SesionHasta(s3, falla)), 500)

\* POST /api/citas/:id/reprogramar
ReprogramarCita(id, fechaInicio, fechaFin, motivo, user, falla, envio) ==
  /\ SoloCitas
  /\ LET r == reprogramarCita(citas, id, fechaInicio, fechaFin, motivo, user, falla, envio)
     IN citas' = r.citas /\ res' = Responder("reprogramarCita", r.status)

\* express-validator chain of POST /:id/cancelar: the fields in error
ErroresCancelar(motivo, canceladoPor) ==
  (IF motivo = NULL \/ motivo = "" THEN {"motivo"} ELSE {})
    \cup (IF canceladoPor \notin {"paciente", "medico", "sistema"}
            THEN {"canceladoPor"} ELSE {})

\* middleware/security validate: a request with validation errors is answered 400
validate(errores) == errores # {}

\* the permission check of cancelarCita
SinPermisoCancelar(cita, user) ==
  IF user.rol = "paciente"
    THEN PacienteDeUsuario(user.userId) = NULL
           \/ PacienteDeUsuario(user.userId) # cita.paciente
    ELSE user.rol = "medico" /\ user.userId # cita.medico

\* let origen = canceladoPor || 'sistema', overridden by the caller's role
OrigenCancelacion(canceladoPor, user) ==
  IF user.rol = "paciente" THEN "paciente"
  ELSE IF user.rol = "medico" THEN "medico"
  ELSE ODefecto(canceladoPor, "sistema")

\* mutant: no_asistio left out of the states cancelarCita refuses
NoCancelable_SinNoAsistio(estado) == estado \in {"completada", "cancelada"}

\* cancelarCita refuses these states
NoCancelable(estado) == estado \in {"completada", "cancelada", "no_asistio"}

\* the route of cancelarCita and the handler: one run on the collection
cancelarCita(store, id, motivo, canceladoPor, user) ==
  IF validate(ErroresCancelar(motivo, canceladoPor)) THEN Resultado(store, 400)
  ELSE IF id \notin DOMAIN store THEN Resultado(store, 404)
  ELSE IF NoCancelable(store[id].estado) THEN Resultado(store, 400)
  ELSE IF SinPermisoCancelar(store[id], user) THEN Resultado(store, 403)
  ELSE Resultado(
         [store EXCEPT ![id] =
            [@ EXCEPT !.estado = "cancelada",
                      !.canceladoPor = OrigenCancelacion(canceladoPor, user),
                      !.motivoCancelacion =
                         Trim(ODefecto(motivo, "No se especificó motivo"))]],
         200)

\* POST /api/citas/:id/cancelar
CancelarCita(id, motivo, canceladoPor, user) ==
  /\ SoloCitas
  /\ LET r == cancelarCita(citas, id, motivo, canceladoPor, user)
     IN citas' = r.citas /\ res' = Responder("cancelarCita", r.status)

\* ---- obtenerCitasMedico
\* User.findOne({ _id: medicoId, rol: 'medico' }): "m3" is registered, not active
MedicosRegistrados == MedicosActivos \cup {"m3"}

\* the documents Cita.find(filtro) and countDocuments(filtro) match
FiltroListado(store, medicoId, fechaDesde, fechaHasta, estado) ==
  { i \in DOMAIN store :
      /\ store[i].medico = medicoId
      /\ estado # NULL => store[i].estado = estado
      /\ fechaDesde # SinFecha => store[i].fechaInicio >= fechaDesde
      /\ fechaHasta # SinFecha => store[i].fechaInicio <= fechaHasta }

\* .sort({ fechaInicio: 1 }): the orders the query may return the matching
\* documents in; the sort key is not unique, and the order of documents with
\* equal keys is whatever the server's plan produces
Ordenes(store, coinciden) ==
  { s \in [1..Cardinality(coinciden) -> coinciden] :
      \A a \in DOMAIN s, b \in DOMAIN s :
        a < b => /\ s[a] # s[b]
                 /\ store[s[a]].fechaInicio <= store[s[b]].fechaInicio }

\* .skip(skip).limit(limit)
Pagina(s, skip, limit) ==
  IF skip >= Len(s) THEN << >>
  ELSE SubSeq(s, skip + 1, IF skip + limit <= Len(s) THEN skip + limit ELSE Len(s))

\* obtenerCitasMedico: the pages one run of the query may answer
obtenerCitasMedico(store, medicoId, fechaDesde, fechaHasta, estado, page, limit) ==
  LET coinciden == FiltroListado(store, medicoId, fechaDesde, fechaHasta, estado)
      skip == (page - 1) * limit
  IN { [ solicitud |-> <<medicoId, fechaDesde, fechaHasta, estado, page, limit>>,
         citas |-> Pagina(s, skip, limit),
         totalCitas |-> Cardinality(coinciden) ] : s \in Ordenes(store, coinciden) }

\* GET /api/citas/medico/:medicoId
ObtenerCitasMedico(medicoId, fechaDesde, fechaHasta, estado, page, limit, user) ==
  /\ UNCHANGED <<pagos, historias, pc, local>>
  /\ IF user.rol = "medico" /\ user.userId # medicoId
       THEN Falla("obtenerCitasMedico", 403) /\ UNCHANGED listado
     ELSE IF medicoId \notin MedicosRegistrados
       THEN Falla("obtenerCitasMedico", 404) /\ UNCHANGED listado
     ELSE /\ listado' \in obtenerCitasMedico(citas, medicoId, fechaDesde, fechaHasta,
                                              estado, page, limit)
          /\ res' = Responder("obtenerCitasMedico", 200)
          /\ UNCHANGED citas

\* ---- controllers/pagos.js and controllers/historias.js: the writes to Cita
SoloPagos == UNCHANGED <<historias, pc, local, listado>>

PagoCompletado(cita) ==
  \E k \in DOMAIN pagos : pagos[k].cita = cita /\ pagos[k].estado = "completado"

\* POST /api/pagos
RegistrarPago(cita, paciente, medico, tratamiento, monto, falla) ==
  /\ SoloPagos
  /\ IF cita \notin Ids
       THEN Falla("registrarPago", 404) /\ UNCHANGED pagos
     ELSE IF \/ PagoCompletado(cita)
             \/ citas[cita].paciente # paciente
             \/ citas[cita].medico # medico
             \/ citas[cita].tratamiento # tratamiento
       THEN Falla("registrarPago", 400) /\ UNCHANGED pagos
     ELSE IF falla # "ninguna"
       THEN Falla("registrarPago", 500) /\ UNCHANGED pagos
     ELSE /\ pagos' = Append(pagos,
               [cita |-> cita, estado |-> "completado", monto |-> monto])
          /\ citas' = IF citas[cita].estado \notin {"completada", "en_curso"}
                        THEN [citas EXCEPT ![cita].estado = "confirmada"]
                        ELSE citas
          /\ res' = Responder("registrarPago", 201)

\* POST /api/pagos/:id/reembolso
RegistrarReembolso(pagoId, monto, motivo, user, falla) ==
  /\ SoloPagos
  /\ IF user.rol # "administrador"
       THEN Falla("registrarReembolso", 403) /\ UNCHANGED pagos
     ELSE IF validate(IF motivo = NULL \/ motivo = "" THEN {"motivo"} ELSE {})
       THEN Falla("registrarReembolso", 400) /\ UNCHANGED pagos
     ELSE IF pagoId \notin DOMAIN pagos
       THEN Falla("registrarReembolso", 404) /\ UNCHANGED pagos
     ELSE IF \/ pagos[pagoId].estado \in {"reembolsado", "anulado"}
             \/ monto > pagos[pagoId].monto
       THEN Falla("registrarReembolso", 400) /\ UNCHANGED pagos
     ELSE IF falla # "ninguna"
       THEN Falla("registrarReembolso", 500) /\ UNCHANGED pagos
     ELSE
       LET cita == pagos[pagoId].cita
       IN /\ pagos' = [pagos EXCEPT ![pagoId].estado = "reembolsado"]
          /\ citas' = IF cita \in Ids /\ citas[cita].estado # "cancelada"
                        THEN [citas EXCEPT ![cita] =
                               [@ EXCEPT !.estado = "cancelada",
                                         !.motivoCancelacion =
                                            Trim(ODefecto(motivo, "Relacionado con reembolso")),
                                         !.canceladoPor = "sistema"]]
                        ELSE citas
          /\ res' = Responder("registrarReembolso", 200)

\* POST /api/historias
CrearHistoria(paciente, cita, tratamientoRealizado, user) ==
  /\ UNCHANGED <<pagos, pc, local, listado>>
  /\ IF user.rol \notin {"medico", "administrador"}
       THEN Falla("crearHistoria", 403) /\ UNCHANGED historias
     ELSE IF paciente \notin PacientesExistentes \/ cita \notin Ids
       THEN Falla("crearHistoria", 404) /\ UNCHANGED historias
     ELSE IF \/ citas[cita].paciente # paciente
             \/ citas[cita].estado \notin {"completada", "en_curso"}
       THEN Falla("crearHistoria", 400) /\ UNCHANGED historias
     ELSE IF tratamientoRealizado \notin TratamientosActivos
       THEN Falla("crearHistoria", 404) /\ UNCHANGED historias
     ELSE IF cita \in historias
       THEN Falla("crearHistoria", 400) /\ UNCHANGED historias
     ELSE /\ historias' = historias \cup {cita}
          /\ citas' = IF citas[cita].estado = "en_curso"
                        THEN [citas EXCEPT ![cita].estado = "completada"]
                        ELSE citas
          /\ res' = Responder("crearHistoria", 201)

\* ------------------------------------------------------- specifications
\* ids a request may name: those in use and the next free one
IdsEntrada == 1..(Len(citas) + 1)
FechasOpcionales == Tiempos \cup {SinFecha}

Admin == [rol |-> "administrador", userId |-> "a1"]
MedicoM1 == [rol |-> "medico", userId |-> "m1"]
MedicoM2 == [rol |-> "medico", userId |-> "m2"]
PacienteP1 == [rol |-> "paciente", userId |-> "up1"]
PacienteSinPerfil == [rol |-> "paciente", userId |-> "ux"]

\* Every specification stores at most a bounded number of documents: a step
\* that would store one more is not taken.
Caben(maxCitas) == Len(citas') <= maxCitas /\ Len(pagos') <= MaxPagos

\* Spec: the life of an appointment under the handlers of the citas
\* controller, callers of every role
LlamadoresEstado == {Admin, PacienteP1}
LlamadoresCancelar == {Admin, MedicoM2, PacienteP1}
Ventanas == {<<0, 1>>, <<1, 2>>}

Next ==
  \/ \E w \in Ventanas :
       CrearCita("p1", "m1", "t1", w[1], w[2], NULL, "enviado") /\ Caben(MaxCitasEstados)
  \/ \E id \in IdsEntrada, f \in {SinFecha, 2}, n \in NotasEntrada :
       ActualizarCita(id, SinFecha, f, n, "enviado")
  \/ \E id \in IdsEntrada, e \in EstadosEntrada, n \in NotasEntrada,
        u \in LlamadoresEstado :
       CambiarEstadoCita(id, e, n, u)
  \/ \E id \in IdsEntrada :
       ReprogramarCita(id, 1, 2, NULL, Admin, "ninguna", "enviado") /\ Caben(MaxCitasEstados)
  \/ \E id \in IdsEntrada, m \in MotivosEntrada, u \in LlamadoresCancelar :
       CancelarCita(id, m, "sistema", u)

Spec == Init /\ [][Next]_vars

\* SpecAgenda: the same handlers over every window and two practitioners, one caller
NextAgenda ==
  \/ \E m \in Medicos, i \in Tiempos, f \in Tiempos :
       CrearCita("p1", m, "t1", i, f, NULL, "enviado") /\ Caben(MaxCitas)
  \/ \E id \in IdsEntrada, i \in FechasOpcionales, f \in FechasOpcionales :
       ActualizarCita(id, i, f, NULL, "enviado")
  \/ \E id \in IdsEntrada, e \in Estados :
       CambiarEstadoCita(id, e, NULL, Admin)
  \/ \E id \in IdsEntrada, i \in Tiempos, f \in Tiempos :
       ReprogramarCita(id, i, f, NULL, Admin, "ninguna", "enviado") /\ Caben(MaxCitas)
  \/ \E id \in IdsEntrada :
       CancelarCita(id, "mot", "sistema", MedicoM1)

SpecAgenda == Init /\ [][NextAgenda]_vars

\* SpecReprogramar: booking, rescheduling with storage failures, and the state
\* changes that retire an appointment
NextReprogramar ==
  \/ \E w \in Ventanas, n \in NotasEntrada :
       CrearCita("p1", "m1", "t1", w[1], w[2], n, "enviado") /\ Caben(MaxCitasReprogramar)
  \/ \E id \in IdsEntrada, e \in {"confirmada", "reprogramada", "cancelada"} :
       CambiarEstadoCita(id, e, NULL, Admin)
  \/ \E id \in IdsEntrada, w \in Ventanas, u \in LlamadoresEstado, x \in Fallas :
       ReprogramarCita(id, w[1], w[2], NULL, u, x, "enviado") /\ Caben(MaxCitasReprogramar)

SpecReprogramar == Init /\ [][NextReprogramar]_vars

\* SpecAlta: Book requests that name patients, practitioners and treatments
\* the directories do and do not resolve; Cancel frees a window.
\* "m3" and "t3" are registered but not active, "px", "mx", "tx" are unknown.
PacientesEntrada == {"p1", "px"}
MedicosEntrada == {"m1", "m2", "m3", "mx"}
TratamientosEntrada == {"t1", "t2", "t3", "tx"}

NextAlta ==
  \/ \E p \in PacientesEntrada, m \in MedicosEntrada, t \in TratamientosEntrada,
        w \in Ventanas :
       CrearCita(p, m, t, w[1], w[2], NULL, "enviado") /\ Caben(MaxCitas)
  \/ \E id \in IdsEntrada :
       CancelarCita(id, "mot", "sistema", Admin)

SpecAlta == Init /\ [][NextAlta]_vars

\* SpecNotificaciones: Book, Update and Reschedule for a patient without
\* reminders ("p1") and one with email and SMS reminders ("p2"), every
\* outcome of the dispatch
CabenRecordatorios ==
  /\ Caben(MaxCitasNotificaciones)
  /\ \A i \in DOMAIN citas' : Len(citas'[i].recordatoriosEnviados) <= MaxRecordatorios

NextNotificaciones ==
  \/ \E p \in {"p1", "p2"}, w \in Ventanas, e \in Envios :
       CrearCita(p, "m1", "t1", w[1], w[2], NULL, e) /\ CabenRecordatorios
  \/ \E id \in IdsEntrada, f \in {SinFecha, 2}, n \in NotasEntrada, e \in Envios :
       ActualizarCita(id, SinFecha, f, n, e) /\ CabenRecordatorios
  \/ \E id \in IdsEntrada, w \in Ventanas, e \in Envios :
       ReprogramarCita(id, w[1], w[2], NULL, Admin, "ninguna", e) /\ CabenRecordatorios

SpecNotificaciones == Init /\ [][NextNotificaciones]_vars

\* SpecSistema: every handler that writes an appointment, payments and
\* clinical histories included
NextSistema ==
  \/ \E i \in {0, 1}, f \in {1, 2} :
       CrearCita("p1", "m1", "t1", i, f, NULL, "enviado") /\ Caben(MaxCitas)
  \/ \E id \in IdsEntrada, f \in {1, 2} :
       ActualizarCita(id, SinFecha, f, NULL, "enviado")
  \/ \E id \in IdsEntrada, e \in Estados :
       CambiarEstadoCita(id, e, NULL, Admin)
  \/ \E id \in IdsEntrada, f \in {1, 2} :
       ReprogramarCita(id, 0, f, NULL, Admin, "ninguna", "enviado") /\ Caben(MaxCitas)
  \/ \E id \in IdsEntrada, p \in {"p1", "px"}, x \in {"ninguna", "commit"} :
       RegistrarPago(id, p, "m1", "t1", 1, x) /\ Caben(MaxCitas)
  \/ \E id \in IdsEntrada :
       CancelarCita(id, "mot", "sistema", Admin)
  \/ \E k \in 1..MaxPagos, monto \in {1, 2}, m \in MotivosEntrada,
        u \in {Admin, MedicoM1}, x \in {"ninguna", "commit"} :
       RegistrarReembolso(k, monto, m, u, x)
  \/ \E id \in IdsEntrada, u \in {MedicoM1, PacienteP1} :
       CrearHistoria("p1", id, "t1", u)

SpecSistema == Init /\ [][NextSistema]_vars

\* SpecCancelaciones: every way an appointment becomes cancelada (Cancel,
\* ChangeState, refund) and every way it leaves that state, with reasons that
\* are absent, given, or made of whitespace only
TextosEntrada == {NULL, "mot", " "}

NextCancelaciones ==
  \/ CrearCita("p1", "m1", "t1", 0, 1, NULL, "enviado") /\ Caben(MaxCitasCancelaciones)
  \/ \E id \in IdsEntrada, e \in {"confirmada", "en_curso", "cancelada"},
        n \in TextosEntrada, u \in LlamadoresEstado :
       CambiarEstadoCita(id, e, n, u)
  \/ \E id \in IdsEntrada, m \in TextosEntrada, o \in {NULL, "paciente"},
        u \in LlamadoresCancelar :
       CancelarCita(id, m, o, u)
  \/ \E id \in IdsEntrada, x \in {"ninguna", "commit"} :
       RegistrarPago(id, "p1", "m1", "t1", 1, x) /\ Caben(MaxCitasCancelaciones)
  \/ \E k \in 1..MaxPagos, m \in TextosEntrada, u \in {Admin, MedicoM1},
        x \in {"ninguna", "commit"} :
       RegistrarReembolso(k, 1, m, u, x)

SpecCancelaciones == Init /\ [][NextCancelaciones]_vars

\* SpecListado: listings of a practitioner's appointments between bookings and
\* cancellations
FechasFiltro == {SinFecha, 1}

NextListado ==
  \/ \E m \in Medicos, w \in Ventanas :
       CrearCita("p1", m, "t1", w[1], w[2], NULL, "enviado") /\ Caben(MaxCitasListado)
  \/ \E id \in IdsEntrada :
       CancelarCita(id, "mot", "sistema", Admin)
  \/ \E m \in {"m1", "m2", "mx"}, d \in FechasFiltro, h \in FechasFiltro,
        e \in {NULL, "programada"}, page \in 1..2, limit \in 1..2,
        u \in {Admin, MedicoM1} :
       ObtenerCitasMedico(m, d, h, e, page, limit, u)

SpecListado == Init /\ [][NextListado]_vars

\* SpecMarco: one booking, then every handler that writes the Cita collection,
\* each with one well-formed request per appointment
NextMarco ==
  \/ CrearCita("p1", "m1", "t1", 0, 1, NULL, "enviado") /\ Len(citas) = 0
  \/ \E id \in IdsEntrada : ActualizarCita(id, SinFecha, SinFecha, "n1", "enviado")
  \/ \E id \in IdsEntrada : CambiarEstadoCita(id, "en_curso", NULL, Admin)
  \/ \E id \in IdsEntrada :
       ReprogramarCita(id, 1, 2, NULL, Admin, "ninguna", "enviado") /\ Caben(MaxCitasMarco)
  \/ \E id \in IdsEntrada : CancelarCita(id, "mot", "sistema", Admin)
  \/ \E id \in IdsEntrada :
       RegistrarPago(id, "p1", "m1", "t1", 1, "ninguna") /\ Caben(MaxCitasMarco)
  \/ \E k \in 1..MaxPagos : RegistrarReembolso(k, 1, "mot", Admin, "ninguna")
  \/ \E id \in IdsEntrada : CrearHistoria("p1", id, "t1", MedicoM1)

SpecMarco == Init /\ [][NextMarco]_vars

\* ---- crearCita as two steps of a request worker: the reads up to the
\* overlap query, then nuevaCita.save()
CrearCitaVerificar(w, paciente, medico, tratamiento, inicio, fin, notas) ==
  /\ pc[w] = "reposo"
  /\ UNCHANGED <<citas, pagos, historias, listado>>
  /\ IF \/ paciente \notin PacientesExistentes
        \/ medico \notin MedicosActivos
        \/ tratamiento \notin TratamientosActivos
       THEN /\ res' = Responder("crearCita", 404)
            /\ local' = [local EXCEPT ![w] = Reposo]
            /\ UNCHANGED pc
     ELSE IF \/ /\ profesionalesHabilitados(tratamiento) # {}
                /\ medico \notin profesionalesHabilitados(tratamiento)
             \/ CitaSolapada(citas, 0, medico, inicio, fin)
       THEN /\ res' = Responder("crearCita", 400)
            /\ local' = [local EXCEPT ![w] = Reposo]
            /\ UNCHANGED pc
     ELSE /\ pc' = [pc EXCEPT ![w] = "guardar"]
          /\ local' = [local EXCEPT ![w] =
                 [op |-> "crearCita",
                  doc |-> NuevaCita(paciente, medico, tratamiento, inicio, fin, notas, 0)]]
          /\ UNCHANGED res

CrearCitaGuardar(w) ==
  /\ pc[w] = "guardar"
  /\ citas' = Append(citas, local[w].doc)
  /\ res' = Responder("crearCita", 201)
  /\ pc' = [pc EXCEPT ![w] = "reposo"]
  /\ local' = [local EXCEPT ![w] = [op |-> "creada", id |-> Len(citas) + 1]]
  /\ UNCHANGED <<pagos, historias, listado>>

\* SpecReservas: two workers serving Book requests, their steps interleaved
NextReservas ==
  \/ \E w \in Workers, m \in Medicos, i \in Tiempos, f \in Tiempos :
       /\ CrearCitaVerificar(w, "p1", m, "t1", i, f, NULL)
       /\ Len(citas) + Cardinality({v \in Workers : pc'[v] = "guardar"}) <= MaxCitas
  \/ \E w \in Workers : CrearCitaGuardar(w)

SpecReservas == Init /\ [][NextReservas]_vars

\* ---- reprogramarCita as two steps of a request worker: the reads made
\* outside the session (findById, the state test, the overlap query), then the
\* transaction from its first write to its commit
ReprogramarCitaVerificar(w, id, fechaInicio, fechaFin, motivo, user) ==
  /\ pc[w] = "reposo"
  /\ UNCHANGED <<citas, pagos, historias, listado>>
  /\ IF id \notin Ids
       THEN /\ res' = Responder("reprogramarCita", 404)
            /\ UNCHANGED <<pc, local>>
     ELSE IF \/ NoReprogramable(citas[id].estado)
             \/ CitaSolapada(citas, id, citas[id].medico, fechaInicio, fechaFin)
       THEN /\ res' = Responder("reprogramarCita", 400)
            /\ UNCHANGED <<pc, local>>
     ELSE /\ pc' = [pc EXCEPT ![w] = "transaccion"]
          /\ local' = [local EXCEPT ![w] =
                 [op |-> "reprogramarCita", id |-> id, cita |-> citas[id],
                  fechaInicio |-> fechaInicio, fechaFin |-> fechaFin,
                  motivo |-> motivo, user |-> user]]
          /\ UNCHANGED res

\* cita.save({ session }) sends the three paths the handler assigned, and
\* the successor is built from the document the worker read
ReprogramarCitaTransaccion(w, falla) ==
  /\ pc[w] = "transaccion"
  /\ LET l == local[w]
         nuevaCita == Notificar(CitaSucesora(l.cita, l.id, l.fechaInicio, l.fechaFin),
                                {"email"}, "enviado")
         s1 == GuardarEnSesion(<< >>, l.id, CitaRetirada(citas[l.id], l.motivo, l.user))
         s2 == GuardarEnSesion(s1, Len(citas) + 1, nuevaCita)
     IN IF falla = "ninguna"
          THEN /\ citas' = CommitTransaction(citas, s2)
               /\ res' = Responder("reprogramarCita", 200)
          ELSE /\ citas' = AbortTransaction(citas, SesionHasta(s2, falla))
               /\ res' = Responder("reprogramarCita", 500)
  /\ pc' = [pc EXCEPT ![w] = "reposo"]
  /\ local' = [local EXCEPT ![w] = Reposo]
  /\ UNCHANGED <<pagos, historias, listado>>

\* SpecSucesoras: one booking, then Reschedule requests served by two workers
\* whose steps interleave, with ChangeState, Update and Cancel between them
NextSucesoras ==
  \/ CrearCita("p1", "m1", "t1", 0, 1, NULL, "enviado") /\ Len(citas) = 0
  \/ \E w \in Workers, id \in IdsEntrada, v \in Ventanas :
       /\ ReprogramarCitaVerificar(w, id, v[1], v[2], NULL, Admin)
       /\ Len(citas) + Cardinality({x \in Workers : pc'[x] = "transaccion"})
            <= MaxCitasSucesoras
  \/ \E w \in Workers, x \in {"ninguna", "commit"} : ReprogramarCitaTransaccion(w, x)
  \/ \E id \in IdsEntrada, e \in {"programada", "cancelada"} :
       CambiarEstadoCita(id, e, NULL, Admin)
  \/ \E id \in IdsEntrada : ActualizarCita(id, SinFecha, 2, NULL, "enviado")
  \/ \E id \in IdsEntrada : CancelarCita(id, "mot", "sistema", Admin)

SpecSucesoras == Init /\ [][NextSucesoras]_vars

\* ================================================================ claims
\* half-open windows [s1,e1) and [s2,e2) intersect
Intersecan(a, b) == a.fechaInicio < b.fechaFin /\ b.fechaInicio < a.fechaFin

Vigente(c) == c.estado \notin {"cancelada", "reprogramada"}

\* C1: for every practitioner, no two distinct appointments that are neither
\* canceled nor rescheduled have intersecting windows.
C1_SinSolapamiento ==
  \A i \in Ids, j \in Ids :
    (i # j /\ citas[i].medico = citas[j].medico /\ Vigente(citas[i]) /\ Vigente(citas[j]))
      => ~Intersecan(citas[i], citas[j])

\* C2: two Book requests of the same practitioner with intersecting windows,
\* served by two workers whose steps interleave, are never both persisted.
C2_ReservasExcluyentes ==
  \A w1 \in Workers, w2 \in Workers :
    (w1 # w2 /\ local[w1].op = "creada" /\ local[w2].op = "creada")
      => LET a == citas[local[w1].id]
             b == citas[local[w2].id]
         IN a.medico = b.medico => ~Intersecan(a, b)


\* the permitted-transition table of the state machine
TablaPermitida(desde) ==
  IF desde = "programada"
    THEN {"confirmada", "en_curso", "completada", "cancelada", "reprogramada", "no_asistio"}
  ELSE IF desde = "confirmada"
    THEN {"en_curso", "completada", "cancelada", "reprogramada", "no_asistio"}
  ELSE IF desde = "en_curso"
    THEN {"completada", "cancelada", "reprogramada", "no_asistio"}
  ELSE {}

Terminales == {"completada", "cancelada", "no_asistio"}

\* the request was answered 400 and no stored appointment changed
Rechazada == res'.status = 400 /\ citas' = citas

C4_TransicionPermitida ==
  [][res'.op = "cambiarEstadoCita" =>
       \A id \in Ids : \A e \in TablaPermitida(citas[id].estado) :
         \/ /\ res'.status = 200
            /\ citas'[id].estado = e
            /\ citas'[id].fechaInicio = citas[id].fechaInicio
            /\ citas'[id].fechaFin = citas[id].fechaFin
            /\ citas'[id].paciente = citas[id].paciente
            /\ citas'[id].medico = citas[id].medico
            /\ citas'[id].tratamiento = citas[id].tratamiento
         \/ ~\E n \in NotasEntrada, u \in LlamadoresEstado :
               CambiarEstadoCita(id, e, n, u)]_vars

\* a ChangeState request succeeded and an appointment is in progress
C4_Testigo ==
  /\ res = Responder("cambiarEstadoCita", 200)
  /\ \E id \in Ids : citas[id].estado = "en_curso"

\* C5: on an appointment that is completed, canceled or no_show, every Update,
\* every ChangeState to a different state and every Cancel is answered 400 and
\* leaves the stored appointments unchanged.
C5_TerminalInmutable ==
  [][\/ res'.op \notin {"actualizarCita", "cambiarEstadoCita", "cancelarCita"}
     \/ Rechazada
     \/ \A id \in Ids :
          citas[id].estado \in Terminales =>
            /\ ~\E f \in FechasOpcionales, g \in FechasOpcionales, n \in NotasEntrada :
                  res'.op = "actualizarCita" /\ ActualizarCita(id, f, g, n, "enviado")
            /\ ~\E e \in Estados \ {citas[id].estado}, n \in NotasEntrada,
                   u \in LlamadoresEstado :
                  res'.op = "cambiarEstadoCita" /\ CambiarEstadoCita(id, e, n, u)
            /\ ~\E m \in MotivosEntrada, u \in LlamadoresCancelar :
                  res'.op = "cancelarCita" /\ CancelarCita(id, m, "sistema", u)]_vars

\* a Cancel request on a completed appointment was answered 400
C5_Testigo ==
  /\ res = Responder("cancelarCita", 400)
  /\ \E id \in Ids : citas[id].estado = "completada"

\* C6: a ChangeState request whose target is the current final state leaves
\* notes, canceledBy and cancellation reason as they were.
C6_MismoEstadoFinalSinCambio ==
  [][\A id \in Ids :
       (res'.op = "cambiarEstadoCita" /\ citas[id].estado \in Terminales
          /\ \E n \in NotasEntrada, u \in LlamadoresEstado :
               CambiarEstadoCita(id, citas[id].estado, n, u))
         => /\ citas'[id].notas = citas[id].notas
            /\ citas'[id].canceladoPor = citas[id].canceladoPor
            /\ citas'[id].motivoCancelacion = citas[id].motivoCancelacion]_vars

\* C7: an appointment in state rescheduled stays in state rescheduled.
C7_ReprogramadaFinal ==
  [][\A id \in Ids :
       citas[id].estado = "reprogramada" => citas'[id].estado = "reprogramada"]_vars

\* C8: an appointment that is completed, canceled or no_show keeps its state
\* under every handler, payments, refunds and clinical histories included.
C8_TerminalPermanente ==
  [][\A id \in Ids :
       citas[id].estado \in Terminales => citas'[id].estado = citas[id].estado]_vars

\* C9: a Reschedule call either commits both writes (the original becomes
\* rescheduled and its successor exists) or, when the storage layer fails
\* before or at the commit, leaves the stored appointments as they were.
C9_ReprogramarAtomico ==
  [][res'.op = "reprogramarCita" =>
       IF res'.status = 200
         THEN /\ Len(citas') = Len(citas) + 1
              /\ \E id \in Ids :
                   /\ citas[id].estado # "reprogramada"
                   /\ citas'[id].estado = "reprogramada"
                   /\ citas'[Len(citas')].citaOriginal = id
                   /\ citas'[Len(citas')].estado = "programada"
         ELSE citas' = citas]_vars

\* a Reschedule whose transaction failed: the original is still live and has
\* no successor
C9_Testigo ==
  /\ res = Responder("reprogramarCita", 500)
  /\ \E id \in Ids :
       /\ citas[id].estado \in {"programada", "confirmada", "en_curso"}
       /\ \A j \in Ids : citas[j].citaOriginal # id

C11_ReprogramarContrato ==
  [][(res'.op = "reprogramarCita" /\ res'.status = 200) =>
       \E id \in Ids, w \in Ventanas :
         /\ \E u \in LlamadoresEstado :
              ReprogramarCita(id, w[1], w[2], NULL, u, "ninguna", "enviado")
         /\ citas'[id].estado = "reprogramada"
         /\ citas'[id].fechaInicio = citas[id].fechaInicio
         /\ citas'[id].fechaFin = citas[id].fechaFin
         /\ citas'[id].paciente = citas[id].paciente
         /\ citas'[id].medico = citas[id].medico
         /\ citas'[id].tratamiento = citas[id].tratamiento
         /\ citas'[id].notas = citas[id].notas
         /\ Len(citas') = Len(citas) + 1
         /\ LET B == citas'[Len(citas')]
            IN /\ B.estado = "programada"
               /\ B.fechaInicio = w[1] /\ B.fechaFin = w[2]
               /\ B.paciente = citas[id].paciente
               /\ B.medico = citas[id].medico
               /\ B.tratamiento = citas[id].tratamiento
               /\ B.notas = citas[id].notas
               /\ B.citaOriginal = id
         /\ \A j \in Ids \ {id} : citas'[j] = citas[j]]_vars

\* a Reschedule succeeded on an appointment with notes: the original keeps its
\* window, the successor has another window and the same notes
C11_Testigo ==
  /\ res = Responder("reprogramarCita", 200)
  /\ \E id \in Ids, j \in Ids :
       /\ citas[id].estado = "reprogramada"
       /\ citas[id].notas = "n1"
       /\ citas[j].citaOriginal = id
       /\ citas[j].notas = "n1"
       /\ citas[j].fechaInicio # citas[id].fechaInicio

\* C12: Reschedule on an id that is not stored is answered 404, and on an
\* appointment that is rescheduled, canceled, completed or no_show is answered
\* 400; in both cases no appointment is created and none is modified.
C12_ReprogramarRechazos ==
  \A id \in IdsEntrada, w \in Ventanas, u \in LlamadoresEstado, x \in Fallas :
    LET r == reprogramarCita(citas, id, w[1], w[2], NULL, u, x, "enviado")
    IN /\ id \notin Ids => (r.status = 404 /\ r.citas = citas)
       /\ (id \in Ids /\ citas[id].estado \in
              {"reprogramada", "cancelada", "completada", "no_asistio"})
            => (r.status = 400 /\ r.citas = citas)

\* a Reschedule request on a rescheduled appointment was answered 400
C12_Testigo ==
  /\ res = Responder("reprogramarCita", 400)
  /\ \E id \in Ids : citas[id].estado = "reprogramada"

\* C13: a Book request whose end equals or precedes its start is answered 400
\* and creates no appointment.
C13_FinPosteriorExigido ==
  [][res'.op = "crearCita" =>
       \A m \in Medicos, i \in Tiempos, f \in Tiempos :
         (f <= i /\ CrearCita("p1", m, "t1", i, f, NULL, "enviado"))
           => (res'.status = 400 /\ citas' = citas)]_vars

\* C14: every stored appointment has its end after its start.
C14_FinDespuesDeInicio ==
  \A id \in Ids : citas[id].fechaFin > citas[id].fechaInicio

\* C15: the conflict check reports a stored window [s1,e1) against a candidate
\* window [s2,e2) exactly when s1 < e2 and s2 < e1, whatever the four bounds.
C15_ConflictoSiiInterseccion ==
  \A id \in Ids, i \in Tiempos, f \in Tiempos :
    Solapa(citas[id], i, f) <=> (citas[id].fechaInicio < f /\ i < citas[id].fechaFin)

\* the practitioner has a live appointment whose window intersects [i,f)
VigenteInterseca(medico, i, f) ==
  \E id \in Ids :
    /\ citas[id].medico = medico
    /\ Vigente(citas[id])
    /\ citas[id].fechaInicio < f /\ i < citas[id].fechaFin

\* C16: a Book for a window that intersects a live appointment of the
\* practitioner (scheduled, confirmed, in progress, completed or no_show) is
\* answered 400, and a Book for the window of a canceled or rescheduled
\* appointment that no live appointment of the practitioner intersects succeeds.
C16_BloqueoPorEstado ==
  [][res'.op = "crearCita" =>
       \A m \in Medicos, i \in Tiempos, f \in Tiempos :
         CrearCita("p1", m, "t1", i, f, NULL, "enviado") =>
           /\ VigenteInterseca(m, i, f) => res'.status = 400
           /\ (/\ ~VigenteInterseca(m, i, f)
               /\ \E id \in Ids :
                    /\ citas[id].medico = m
                    /\ ~Vigente(citas[id])
                    /\ citas[id].fechaInicio = i /\ citas[id].fechaFin = f)
                => res'.status = 201]_vars

\* C17: Book is answered 404 and creates nothing when the patient, the
\* practitioner or the treatment does not resolve or is not active, is
\* answered 400 and creates nothing when the treatment has a non-empty list of
\* enabled practitioners without the chosen one, and is not refused for the
\* practitioner when the list is empty.
C17_AltaDirectorios ==
  [][res'.op = "crearCita" =>
       \A p \in PacientesEntrada, m \in MedicosEntrada, t \in TratamientosEntrada,
          w \in Ventanas :
         CrearCita(p, m, t, w[1], w[2], NULL, "enviado") =>
           LET resuelven == /\ p \in PacientesExistentes
                            /\ m \in MedicosActivos
                            /\ t \in TratamientosActivos
               lista == profesionalesHabilitados(t)
           IN /\ ~resuelven => (res'.status = 404 /\ citas' = citas)
              /\ (resuelven /\ lista # {} /\ m \notin lista)
                   => (res'.status = 400 /\ citas' = citas)
              /\ (resuelven /\ lista = {} /\ ~CitaSolapada(citas, 0, m, w[1], w[2]))
                   => (res'.status = 201 /\ Len(citas') = Len(citas) + 1)]_vars

\* a Book for a treatment that does not enable the practitioner was answered
\* 400 while that practitioner holds an appointment for an unrestricted treatment
C17_Testigo ==
  /\ res = Responder("crearCita", 400)
  /\ Len(citas) = 1
  /\ citas[1].medico = "m2"
  /\ citas[1].tratamiento = "t1"
  /\ citas[1].estado = "programada"

\* the collection without the notification logs
SinRecordatorios(store) ==
  [i \in DOMAIN store |-> [store[i] EXCEPT !.recordatoriosEnviados = << >>]]

\* two runs answer the same status and leave the same appointments, logs aside
MismoResultado(r1, r2) ==
  r1.status = r2.status /\ SinRecordatorios(r1.citas) = SinRecordatorios(r2.citas)

\* C18: from every reachable collection and for every request, a run of Book,
\* Update or Reschedule in which the email or SMS dispatch throws answers the
\* same status and leaves the same stored appointments (state, window, notes,
\* successor link) as the run in which the dispatch succeeds; only
\* recordatoriosEnviados may differ.
C18_NotificacionNoCambiaResultado ==
  \A e \in Envios :
    /\ \A p \in {"p1", "p2"}, w \in Ventanas :
         MismoResultado(crearCita(citas, p, "m1", "t1", w[1], w[2], NULL, e),
                        crearCita(citas, p, "m1", "t1", w[1], w[2], NULL, "enviado"))
    /\ \A id \in IdsEntrada, f \in {SinFecha, 2}, n \in NotasEntrada :
         MismoResultado(actualizarCita(citas, id, SinFecha, f, n, e),
                        actualizarCita(citas, id, SinFecha, f, n, "enviado"))
    /\ \A id \in IdsEntrada, w \in Ventanas :
         MismoResultado(
           reprogramarCita(citas, id, w[1], w[2], NULL, Admin, "ninguna", e),
           reprogramarCita(citas, id, w[1], w[2], NULL, Admin, "ninguna", "enviado"))

\* the patient with reminders holds one appointment whose dispatch threw at
\* the email (nothing logged) and one whose email and SMS were both sent
C18_Testigo ==
  \E i \in Ids, j \in Ids :
    /\ citas[i].paciente = "p2" /\ citas[i].recordatoriosEnviados = << >>
    /\ citas[j].paciente = "p2" /\ Len(citas[j].recordatoriosEnviados) = 2
    /\ res.status \in {200, 201}

\* C19: an Update of a non-final appointment that changes a time bound is
\* answered 200 exactly when no other live appointment of the practitioner
\* intersects the new window, and when it is refused the stored appointments
\* are unchanged.
C19_ActualizarSiiLibre ==
  [][res'.op = "actualizarCita" =>
       \A id \in Ids, i \in FechasOpcionales, f \in FechasOpcionales :
         LET nuevoInicio == IF i # SinFecha THEN i ELSE citas[id].fechaInicio
             nuevoFin == IF f # SinFecha THEN f ELSE citas[id].fechaFin
             otra == \E j \in Ids \ {id} :
                       /\ citas[j].medico = citas[id].medico
                       /\ Vigente(citas[j])
                       /\ citas[j].fechaInicio < nuevoFin /\ nuevoInicio < citas[j].fechaFin
         IN (/\ citas[id].estado \notin Terminales
             /\ nuevoInicio # citas[id].fechaInicio \/ nuevoFin # citas[id].fechaFin
             /\ ActualizarCita(id, i, f, NULL, "enviado"))
              => /\ (res'.status = 200) <=> ~otra
                 /\ res'.status # 200 => citas' = citas]_vars

\* C20: a ChangeState request with target canceled and no notes, and a Cancel
\* request with no reason, are answered 400 and leave the stored appointments
\* unchanged.
C20_CancelarExigeMotivo ==
  [][res'.op \in {"cambiarEstadoCita", "cancelarCita"} =>
       \A id \in Ids :
         /\ (\E u \in LlamadoresEstado : CambiarEstadoCita(id, "cancelada", NULL, u))
              => Rechazada
         /\ (\E u \in LlamadoresCancelar : CancelarCita(id, NULL, "sistema", u))
              => Rechazada]_vars

\* C21: for the same appointment, caller and reason, Cancel and ChangeState
\* with target canceled are accepted or rejected alike and, when accepted,
\* leave the same state, canceledBy and cancellation reason.
C21_CancelarComoCambiarEstado ==
  \A id \in Ids, m \in MotivosEntrada, u \in LlamadoresCancelar :
    LET a == cancelarCita(citas, id, m, "sistema", u)
        b == cambiarEstadoCita(citas, id, "cancelada", m, u)
    IN /\ (a.status = 200) <=> (b.status = 200)
       /\ a.status = 200 =>
            /\ a.citas[id].estado = b.citas[id].estado
            /\ a.citas[id].canceladoPor = b.citas[id].canceladoPor
            /\ a.citas[id].motivoCancelacion = b.citas[id].motivoCancelacion

\* C22: an appointment that is scheduled, confirmed, in progress or completed
\* has canceledBy = no_aplica and no cancellation reason.
C22_MetadatosSoloCancelacion ==
  \A id \in Ids :
    citas[id].estado \in {"programada", "confirmada", "en_curso", "completada"}
      => (citas[id].canceladoPor = "no_aplica" /\ citas[id].motivoCancelacion = NULL)

\* C23: every stored appointment in state cancelada has canceladoPor in
\* {paciente, medico, sistema} and a non-empty motivoCancelacion, whichever
\* handler canceled it (cancelarCita, cambiarEstadoCita, registrarReembolso).
C23_CanceladaConMetadatos ==
  \A id \in Ids :
    citas[id].estado = "cancelada"
      => /\ citas[id].canceladoPor \in {"paciente", "medico", "sistema"}
         /\ citas[id].motivoCancelacion \notin {NULL, ""}

\* C24: no Update or ChangeState call changes the window or the notes of an
\* appointment that is completed, canceled, no_show or rescheduled.
C24_VentanaYNotasSoloNoTerminal ==
  [][res'.op \in {"actualizarCita", "cambiarEstadoCita"} =>
       \A id \in Ids :
         citas[id].estado \in Terminales \cup {"reprogramada"} =>
           /\ citas'[id].fechaInicio = citas[id].fechaInicio
           /\ citas'[id].fechaFin = citas[id].fechaFin
           /\ citas'[id].notas = citas[id].notas]_vars

\* C25: a Reschedule whose transaction meets one storage conflict (at a save
\* or at the commit) is retried and does not end with the internal error.
C25_ConflictoReintentado ==
  [][res'.op = "reprogramarCita" =>
       \A id \in Ids, w \in Ventanas, u \in LlamadoresEstado :
         \A x \in Fallas \ {"ninguna"} :
           ReprogramarCita(id, w[1], w[2], NULL, u, x, "enviado")
             => res'.status # 500]_vars

\* C30: a write request by a caller with the patient role, other than a Cancel
\* of an appointment of that patient, leaves the stored appointments unchanged.
C30_PacienteSoloCancela ==
  [][res'.op \in {"cambiarEstadoCita", "cancelarCita"} =>
       \A id \in Ids :
         /\ (\E e \in Estados, n \in NotasEntrada :
                CambiarEstadoCita(id, e, n, PacienteP1)) => citas' = citas
         /\ (\E m \in MotivosEntrada : CancelarCita(id, m, "sistema", PacienteP1))
              => (citas' = citas \/ citas[id].paciente = PacienteDeUsuario(PacienteP1.userId))]_vars

\* the log a is kept, in order and unaltered, at the front of the log b
EsPrefijo(a, b) == Len(a) <= Len(b) /\ SubSeq(b, 1, Len(a)) = a

\* the entries of b after those of a
Agregadas(a, b) == SubSeq(b, Len(a) + 1, Len(b))

\* the run r of a handler kept every stored log and appended to the logs, new
\* appointments' included, only entries of channels whose send succeeded
SoloAgrega(r, envio) ==
  \A id \in DOMAIN r.citas :
    LET antes == IF id \in Ids THEN citas[id].recordatoriosEnviados ELSE << >>
        despues == r.citas[id].recordatoriosEnviados
    IN /\ EsPrefijo(antes, despues)
       /\ \A k \in DOMAIN Agregadas(antes, despues) :
            LET e == Agregadas(antes, despues)[k]
            IN /\ e.estado = "enviado"
               /\ e.tipo = "email" => envio # "fallaEmail"
               /\ e.tipo = "sms" => envio # "fallaSMS"

\* C26: the notification log is append-only: from every reachable state, a run
\* of crearCita, actualizarCita or reprogramarCita keeps every stored
\* appointment and every entry of its log, in order, and appends an entry for
\* a channel only when the send on that channel succeeded; a run of
\* cambiarEstadoCita or cancelarCita leaves every log as it is.
C26_RegistroSoloAgrega ==
  /\ \A e \in Envios :
       /\ \A p \in {"p1", "p2"}, w \in Ventanas :
            LET r == crearCita(citas, p, "m1", "t1", w[1], w[2], NULL, e)
            IN Ids \subseteq DOMAIN r.citas /\ SoloAgrega(r, e)
       /\ \A id \in IdsEntrada :
            /\ \A f \in {SinFecha, 2}, n \in NotasEntrada :
                 LET r == actualizarCita(citas, id, SinFecha, f, n, e)
                 IN DOMAIN r.citas = Ids /\ SoloAgrega(r, e)
            /\ \A w \in Ventanas :
                 LET r == reprogramarCita(citas, id, w[1], w[2], NULL, Admin, "ninguna", e)
                 IN Ids \subseteq DOMAIN r.citas /\ SoloAgrega(r, e)
  /\ \A id \in IdsEntrada :
       /\ \A x \in Estados :
            LET r == cambiarEstadoCita(citas, id, x, NULL, Admin)
            IN DOMAIN r.citas = Ids
                 /\ \A j \in Ids : r.citas[j].recordatoriosEnviados
                                       = citas[j].recordatoriosEnviados
       /\ LET r == cancelarCita(citas, id, "mot", "sistema", Admin)
          IN DOMAIN r.citas = Ids
               /\ \A j \in Ids : r.citas[j].recordatoriosEnviados
                                     = citas[j].recordatoriosEnviados

\* an Update appended an email entry to a log that already held one: the
\* booking's SMS had failed, so the log holds no SMS entry
C26_Testigo ==
  /\ res = Responder("actualizarCita", 200)
  /\ \E id \in Ids :
       /\ citas[id].paciente = "p2"
       /\ citas[id].recordatoriosEnviados
            = << [tipo |-> "email", estado |-> "enviado"],
                 [tipo |-> "email", estado |-> "enviado"] >>

\* C27: obtenerCitasMedico is a pure read: it leaves the collection as it is;
\* the page it answers holds only appointments of the practitioner that match
\* the state and date filters, ordered by fechaInicio ascending; and a call
\* that follows a call with the same filters and page parameters, with no
\* step in between, answers the same page.
C27_ListadoLecturaPura ==
  [][res'.op = "obtenerCitasMedico" =>
       /\ citas' = citas
       /\ res'.status = 200 =>
            LET q == listado'.solicitud
                pagina == listado'.citas
            IN /\ \A k \in DOMAIN pagina :
                    pagina[k] \in FiltroListado(citas, q[1], q[2], q[3], q[4])
               /\ \A a \in DOMAIN pagina, b \in DOMAIN pagina :
                    a < b => citas[pagina[a]].fechaInicio <= citas[pagina[b]].fechaInicio
               /\ (res = Responder("obtenerCitasMedico", 200) /\ listado.solicitud = q)
                    => listado' = listado]_vars

\* the stored appointments that name id as their citaOriginal
Sucesoras(id) == {j \in Ids : citas[j].citaOriginal = id}

\* C28: an appointment has at most one successor: in every reachable state at
\* most one stored appointment references a given appointment as its
\* citaOriginal.
C28_UnaSucesora == \A id \in Ids : Cardinality(Sucesoras(id)) <= 1

\* C29: no step of any handler deletes an appointment or changes the
\* paciente, medico, tratamiento or citaOriginal of a stored one; the
\* collection grows by at most one document per step, and only under
\* crearCita and reprogramarCita.
C29_IdentidadInmutable ==
  [][/\ \A id \in Ids :
          /\ id \in DOMAIN citas'
          /\ citas'[id].paciente = citas[id].paciente
          /\ citas'[id].medico = citas[id].medico
          /\ citas'[id].tratamiento = citas[id].tratamiento
          /\ citas'[id].citaOriginal = citas[id].citaOriginal
     /\ Len(citas') <= Len(citas) + 1
     /\ Len(citas') = Len(citas) + 1 => res'.op \in {"crearCita", "reprogramarCita"}]_vars

\* a successor, which carries a citaOriginal reference, was paid, refunded
\* (which cancels it) and still names its original, itself retired
C29_Testigo ==
  /\ res = Responder("registrarReembolso", 200)
  /\ \E id \in Ids :
       /\ citas[id].citaOriginal \in Ids
       /\ citas[id].estado = "cancelada"
       /\ citas[id].canceladoPor = "sistema"
       /\ citas[citas[id].citaOriginal].estado = "reprogramada"

====
